---- MODULE Spec2Model ----
(***************************************************************************)
(* Model of the cfb_analysis dataset loaders (src/src/loaders.py) and the  *)
(* API client (src/src/api.py): the fetch-or-cache single-year loaders,    *)
(* the multi-year aggregators and attach_player_ids.                       *)
(*                                                                         *)
(* Tables are pandas DataFrames: a sequence of column names and a sequence *)
(* of rows, every row a sequence of cell values aligned with the columns.  *)
(* Cache entries are CSV files: a header and lines of text cells.          *)
(***************************************************************************)
EXTENDS Integers, Sequences, FiniteSets, TLC

VARIABLES cache, netCalls, last

vars == <<cache, netCalls, last>>

----------------------------------------------------------------------------
(* Bounds of the exploration.                                              *)

\* first season of the explored range
BaseYear == 2021
\* number of consecutive seasons explored
NumYears == 2
\* network requests one behaviour may issue in total
MaxNet == 2
\* rows of a transfer table handed to attach_player_ids
MaxRows == 2

Years == BaseYear .. (BaseYear + NumYears - 1)

----------------------------------------------------------------------------
(* Cell values.  A value carries its Python type: None, float NaN, int,    *)
(* float, or str; a str whose text is a decimal number is kept apart       *)
(* ("numstr") because the CSV reader turns it into a number.               *)

NoneV == [t |-> "None", s |-> "", n |-> 0]
NaN == [t |-> "NaN", s |-> "", n |-> 0]
IntV(k) == [t |-> "int", s |-> "", n |-> k]
FloatV(k) == [t |-> "float", s |-> "", n |-> k]
StrV(x) == [t |-> "str", s |-> x, n |-> 0]
NumStrV(k) == [t |-> "numstr", s |-> "", n |-> k]
\* a nested JSON object: o is its sequence of <<key, value>> members
ObjV(members) == [t |-> "obj", s |-> "", n |-> 0, o |-> members]

IsNull(v) == v.t \in {"None", "NaN"}
IsNumber(v) == v.t \in {"int", "float"}

\* text cells of a CSV file
Blank == [k |-> "blank", s |-> "", n |-> 0]
Digits(d) == [k |-> "digits", s |-> "", n |-> d]
Decimal(d) == [k |-> "decimal", s |-> "", n |-> d]
Text(x) == [k |-> "text", s |-> x, n |-> 0]

\* pd.DataFrame(): no rows, no columns
EmptyFrame == [cols |-> <<>>, rows |-> <<>>]

\* DataFrame.empty: true when either axis has length 0
IsEmpty(df) == Len(df.rows) = 0 \/ Len(df.cols) = 0

Range(f) == {f[i] : i \in DOMAIN f}

\* position of column c in cols, 0 when absent
RECURSIVE ColIndexFrom(_, _, _)
ColIndexFrom(cols, c, i) ==
  IF i > Len(cols) THEN 0
  ELSE IF cols[i] = c THEN i
  ELSE ColIndexFrom(cols, c, i + 1)

ColIndex(cols, c) == ColIndexFrom(cols, c, 1)

HasColumn(df, c) == ColIndex(df.cols, c) # 0

\* df[c] of row r: the cell, NaN for a column the frame lacks
Cell(df, r, c) ==
  IF HasColumn(df, c) THEN df.rows[r][ColIndex(df.cols, c)] ELSE NaN

\* cols followed by the names of more that cols lacks, in first-seen order
RECURSIVE UnionCols(_, _)
UnionCols(cols, more) ==
  IF more = <<>> THEN cols
  ELSE UnionCols(IF ColIndex(cols, Head(more)) = 0
                   THEN Append(cols, Head(more)) ELSE cols,
                 Tail(more))

\* dtype inference of a column built from Python objects: a column of
\* numbers and nulls becomes float64 (None -> NaN); one of ints stays
\* int64; anything else is an object column and keeps its values.
InferColumn(vals) ==
  LET numeric == \A i \in DOMAIN vals : IsNumber(vals[i]) \/ IsNull(vals[i])
      someNum == \E i \in DOMAIN vals : IsNumber(vals[i])
      widen == \E i \in DOMAIN vals : IsNull(vals[i]) \/ vals[i].t = "float"
  IN IF numeric /\ someNum /\ widen
       THEN [i \in DOMAIN vals |->
                     IF IsNull(vals[i]) THEN NaN ELSE FloatV(vals[i].n)]
       ELSE vals

\* apply InferColumn to every column of a frame
InferFrame(df) ==
  LET col == [j \in 1 .. Len(df.cols) |->
                      InferColumn([i \in 1 .. Len(df.rows) |-> df.rows[i][j]])]
  IN [cols |-> df.cols,
      rows |-> [i \in 1 .. Len(df.rows) |->
                        [j \in 1 .. Len(df.cols) |-> col[j][i]]]]

----------------------------------------------------------------------------
(* pd.json_normalize: one row per array element, nested objects flattened  *)
(* into dot-joined column names, missing keys filled with NaN.             *)

RECURSIVE Flatten(_, _)
Flatten(members, prefix) ==
  IF members = <<>> THEN <<>>
  ELSE LET m == Head(members)
       IN (IF m[2].t = "obj"
             THEN Flatten(m[2].o, prefix \o m[1] \o ".")
             ELSE << <<prefix \o m[1], m[2]>> >>)
          \o Flatten(Tail(members), prefix)

Keys(flat) == [i \in DOMAIN flat |-> flat[i][1]]

\* value of key c in a flattened object, NaN when the object lacks it
Lookup(flat, c) ==
  IF \E i \in DOMAIN flat : flat[i][1] = c
    THEN flat[CHOOSE i \in DOMAIN flat : flat[i][1] = c][2]
    ELSE NaN

RECURSIVE AllKeys(_, _)
AllKeys(flats, cols) ==
  IF flats = <<>> THEN cols
  ELSE AllKeys(Tail(flats), UnionCols(cols, Keys(Head(flats))))

json_normalize(data) ==
  LET flats == [i \in DOMAIN data |-> Flatten(data[i], "")]
      cols == AllKeys(flats, <<>>)
  IN InferFrame([cols |-> cols,
                 rows |-> [i \in DOMAIN data |->
                            [j \in DOMAIN cols |-> Lookup(flats[i], cols[j])]]])

----------------------------------------------------------------------------
(* DataFrame.to_csv(path, index=False) and pd.read_csv(path).              *)

ToCsvCell(v) ==
  CASE IsNull(v) -> Blank
    [] v.t = "int" -> Digits(v.n)
    [] v.t = "float" -> Decimal(v.n)
    [] v.t = "numstr" -> Digits(v.n)
    [] OTHER -> Text(v.s)

\* header line and one line per row; a frame without columns writes an
\* empty header line and nothing else
to_csv(df) ==
  [header |-> df.cols,
   lines |-> IF Len(df.cols) = 0 THEN <<>>
             ELSE [i \in 1 .. Len(df.rows) |->
                     [j \in 1 .. Len(df.cols) |-> ToCsvCell(df.rows[i][j])]]]

\* the parser's type inference for one column of text cells: all digits ->
\* int64; numbers with a blank or a decimal -> float64; any text -> object
\* (every cell a str, blanks NaN)
ReadColumn(cells) ==
  LET numeric == \A i \in DOMAIN cells : cells[i].k \in {"digits", "decimal", "blank"}
      widen == \E i \in DOMAIN cells : cells[i].k \in {"decimal", "blank"}
  IN [i \in DOMAIN cells |->
        CASE cells[i].k = "blank" -> NaN
          [] cells[i].k \in {"digits", "decimal"} ->
               IF ~numeric THEN NumStrV(cells[i].n)
               ELSE IF widen THEN FloatV(cells[i].n) ELSE IntV(cells[i].n)
          [] OTHER -> StrV(cells[i].s)]

\* read_csv raises EmptyDataError ("No columns to parse from file") on a
\* file whose header line is empty
read_csv(file) ==
  IF Len(file.header) = 0
    THEN [outcome |-> "EmptyDataError", df |-> EmptyFrame]
    ELSE LET col == [j \in 1 .. Len(file.header) |->
                 ReadColumn([i \in 1 .. Len(file.lines) |-> file.lines[i][j]])]
         IN [outcome |-> "ok",
             df |-> [cols |-> file.header,
                     rows |-> [i \in 1 .. Len(file.lines) |->
                                [j \in 1 .. Len(file.header) |-> col[j][i]]]]]

----------------------------------------------------------------------------
(* The remote API.  A reply is an HTTP status and a decoded JSON body; the *)
(* bodies are arrays of objects, an object a sequence of <<key, value>>.   *)

\* an array of one object without a year field; playerId is a JSON string
BodyPlain ==
  << << <<"team", StrV("Acme State")>>, <<"playerId", NumStrV(101)>> >> >>

\* an array of two objects that embed a year field and a nested object
BodyYear(y) ==
  << << <<"year", IntV(y)>>, <<"team", StrV("Acme State")>>,
        <<"offense", ObjV(<< <<"rating", IntV(7)>> >>)>> >>,
     << <<"year", IntV(y)>>, <<"team", StrV("Other U")>>,
        <<"offense", ObjV(<< <<"rating", NoneV>> >>)>> >> >>

\* what the server may send for a request of season `year`: an empty array,
\* rows without a year field, rows that embed the requested season, and rows
\* that embed the season before it
Bodies(year) == {<<>>, BodyPlain, BodyYear(year), BodyYear(year - 1)}

Replies(year) ==
  [status : {200}, body : Bodies(year)] \cup [status : {500}, body : {<<>>}]

\* requests.get + raise_for_status + resp.json()
cfbd_get(path, params, reply) ==
  IF reply.status >= 400
    THEN [outcome |-> "HTTPError", json |-> <<>>]
    ELSE [outcome |-> "ok", json |-> reply.body]

----------------------------------------------------------------------------
(* The cache directory RAW_DIR: file name -> CSV file, NoFile when absent. *)

NoFile == [header |-> <<"<absent>">>, lines |-> <<>>]

YearlyDatasets ==
  {"transfer_portal", "team_season_stats", "player_season_stats",
   "sp_plus", "team_records"}

\* f"{dataset}_{year}.csv", and "team_talent.csv" (year 0)
CsvPath(dataset, year) == <<dataset, year>>

CacheKeys == (YearlyDatasets \X Years) \cup {CsvPath("team_talent", 0)}

\* json_normalize, to_csv and read_csv tabulated over the bodies the server
\* can send and the files and frames they lead to, so that each conversion is
\* computed once
AllBodies == UNION {Bodies(y) : y \in Years \cup {0}}
Normalized == [data \in AllBodies |-> json_normalize(data)]
Written == [df \in Range(Normalized) |-> to_csv(df)]
Loaded == [file \in Range(Written) |-> read_csv(file)]

FetchOrCacheWritesOnError(c, csv_path, path, params, use_cache, reply) ==
  IF use_cache /\ c[csv_path] # NoFile
    THEN LET r == Loaded[c[csv_path]]
         IN [outcome |-> r.outcome, df |-> r.df, cache |-> c, net |-> 0]
    ELSE LET data == cfbd_get(path, params, reply)
             df == Normalized[data.json]
         IN [outcome |-> data.outcome,
             df |-> IF data.outcome = "ok" THEN df ELSE EmptyFrame,
             cache |-> [c EXCEPT ![csv_path] = Written[df]],
             net |-> 1]

\* the body shared by the six single-year loaders: cache hit -> read_csv;
\* otherwise cfbd_get, json_normalize, to_csv, return
FetchOrCache(c, csv_path, path, params, use_cache, reply) ==
  IF use_cache /\ c[csv_path] # NoFile
    THEN LET r == Loaded[c[csv_path]]
         IN [outcome |-> r.outcome, df |-> r.df, cache |-> c, net |-> 0]
    ELSE LET data == cfbd_get(path, params, reply)
         IN IF data.outcome # "ok"
              THEN [outcome |-> data.outcome, df |-> EmptyFrame,
                    cache |-> c, net |-> 1]
              ELSE LET df == Normalized[data.json]
                   IN [outcome |-> "ok", df |-> df,
                       cache |-> [c EXCEPT ![csv_path] = Written[df]],
                       net |-> 1]

\* the record of the most recent call and what it returned
NoCall ==
  [fn |-> "none", start |-> 0, end |-> 0, use_cache |-> TRUE,
   outcome |-> "ok", df |-> EmptyFrame, net |-> 0,
   fetched |-> <<>>, input |-> EmptyFrame, searches |-> <<>>]

Init ==
  /\ cache = [k \in CacheKeys |-> NoFile]
  /\ netCalls = 0
  /\ last = NoCall

\* one call of a single-year loader
SingleYear(fn, dataset, path, year, use_cache) ==
  LET csv_path == CsvPath(dataset, year)
      hit == use_cache /\ cache[csv_path] # NoFile
  IN /\ hit \/ netCalls < MaxNet
     /\ \E reply \in (IF hit THEN {[status |-> 200, body |-> <<>>]}
                              ELSE Replies(year)) :
       LET r == FetchOrCache(cache, csv_path, path, [year |-> year],
                             use_cache, reply)
       IN /\ cache' = r.cache
          /\ netCalls' = netCalls + r.net
          /\ last' = [NoCall EXCEPT !.fn = fn, !.start = year, !.end = year,
                        !.use_cache = use_cache, !.outcome = r.outcome,
                        !.df = r.df, !.net = r.net]

load_transfer_portal ==
  \E year \in Years, use_cache \in BOOLEAN :
    SingleYear("load_transfer_portal", "transfer_portal", "/player/portal",
               year, use_cache)

load_team_talent ==
  \E use_cache \in BOOLEAN :
    SingleYear("load_team_talent", "team_talent", "/talent", 0, use_cache)

load_team_season_stats ==
  \E year \in Years, use_cache \in BOOLEAN :
    SingleYear("load_team_season_stats", "team_season_stats",
               "/stats/season/team", year, use_cache)

load_player_season_stats ==
  \E year \in Years, use_cache \in BOOLEAN :
    SingleYear("load_player_season_stats", "player_season_stats",
               "/stats/player/season", year, use_cache)

load_sp_plus_ratings ==
  \E year \in Years, use_cache \in BOOLEAN :
    SingleYear("load_sp_plus_ratings", "sp_plus", "/ratings/sp",
               year, use_cache)

load_team_records ==
  \E year \in Years, use_cache \in BOOLEAN :
    SingleYear("load_team_records", "team_records", "/records",
               year, use_cache)

NextFetch ==
  \/ load_transfer_portal
  \/ load_team_talent
  \/ load_team_season_stats
  \/ load_player_season_stats
  \/ load_sp_plus_ratings
  \/ load_team_records

SpecFetch == Init /\ [][NextFetch]_vars

----------------------------------------------------------------------------
(* The multi-year aggregators.                                             *)

\* df[c] = v: every cell of column c becomes v; a frame without the column
\* gets it appended
SetColumn(df, c, v) ==
  IF HasColumn(df, c)
    THEN [cols |-> df.cols,
          rows |-> [i \in 1 .. Len(df.rows) |->
                      [j \in 1 .. Len(df.cols) |->
                         IF df.cols[j] = c THEN v ELSE df.rows[i][j]]]]
    ELSE [cols |-> Append(df.cols, c),
          rows |-> [i \in 1 .. Len(df.rows) |-> Append(df.rows[i], v)]]

RECURSIVE ConcatCols(_, _)
ConcatCols(dfs, cols) ==
  IF dfs = <<>> THEN cols
  ELSE ConcatCols(Tail(dfs), UnionCols(cols, Head(dfs).cols))

RECURSIVE ConcatRowsLastFirst(_, _)
ConcatRowsLastFirst(dfs, cols) ==
  IF dfs = <<>> THEN <<>>
  ELSE LET df == Head(dfs)
       IN ConcatRowsLastFirst(Tail(dfs), cols)
          \o [i \in 1 .. Len(df.rows) |->
                [j \in 1 .. Len(cols) |-> Cell(df, i, cols[j])]]

RECURSIVE ConcatRows(_, _)
ConcatRows(dfs, cols) ==
  IF dfs = <<>> THEN <<>>
  ELSE LET df == Head(dfs)
       IN [i \in 1 .. Len(df.rows) |->
             [j \in 1 .. Len(cols) |-> Cell(df, i, cols[j])]]
          \o ConcatRows(Tail(dfs), cols)

\* pd.concat(dfs, ignore_index=True): the union of the columns in first-seen
\* order, the rows of every frame in list order, NaN where a frame lacks a
\* column
concat(dfs) ==
  LET cols == ConcatCols(dfs, <<>>)
  IN InferFrame([cols |-> cols, rows |-> ConcatRows(dfs, cols)])

\* what each aggregator does to a non-empty year's frame before appending it
\* to dfs
TagTransferPortal(df, year) == SetColumn(df, "year", IntV(year))

TagPlayerSeasonStatsOverwrites(df, year) == SetColumn(df, "year", IntV(year))

TagPlayerSeasonStats(df, year) ==
  IF ~HasColumn(df, "year") THEN SetColumn(df, "year", IntV(year)) ELSE df

TagSpPlus(df, year) == df

Tag(fn, df, year) ==
  CASE fn = "load_transfer_portal_multi" -> TagTransferPortal(df, year)
    [] fn = "load_player_season_stats_multi" -> TagPlayerSeasonStats(df, year)
    [] OTHER -> TagSpPlus(df, year)

\* the body of the loop after the single-year call: an empty frame is skipped
\* with a warning, any other is tagged and appended to dfs
CollectResetsOnEmpty(fn, dfs, df, year) ==
  IF IsEmpty(df) THEN <<>> ELSE Append(dfs, Tag(fn, df, year))

Collect(fn, dfs, df, year) ==
  IF IsEmpty(df) THEN dfs ELSE Append(dfs, Tag(fn, df, year))

\* the replies the server gives to the requests of one run of the loop over
\* year .. end: one per year visited, none for a year served from the cache;
\* the run ends at the first failing request, and `budget` requests remain
Miss == [status |-> 0, body |-> <<>>]

RECURSIVE Runs(_, _, _, _, _)
Runs(dataset, year, end, use_cache, budget) ==
  IF year > end THEN {<<>>}
  ELSE IF use_cache /\ cache[CsvPath(dataset, year)] # NoFile
    THEN {<<Miss>> \o rest : rest \in Runs(dataset, year + 1, end, use_cache, budget)}
  ELSE IF budget = 0 THEN {}
  ELSE {<<r>> : r \in {x \in Replies(year) : x.status >= 400}}
       \cup {<<r>> \o rest :
               r \in {x \in Replies(year) : x.status < 400},
               rest \in Runs(dataset, year + 1, end, use_cache, budget - 1)}

\* for year in range(start_year, end_year + 1): the state of the loop is the
\* cache, dfs, and the record of the single-year calls made so far
RECURSIVE MultiLoop(_, _, _, _, _, _, _, _)
MultiLoop(fn, dataset, path, year, end, use_cache, replies, acc) ==
  IF year > end THEN acc
  ELSE LET r == FetchOrCache(acc.cache, CsvPath(dataset, year), path,
                             [year |-> year], use_cache, Head(replies))
           call == [year |-> year, use_cache |-> use_cache,
                    outcome |-> r.outcome, df |-> r.df, net |-> r.net]
       IN IF r.outcome # "ok"
            THEN [acc EXCEPT !.outcome = r.outcome,
                             !.fetched = Append(@, call),
                             !.net = @ + r.net]
            ELSE MultiLoop(fn, dataset, path, year + 1, end, use_cache,
                           Tail(replies),
                           [outcome |-> "ok",
                            cache |-> r.cache,
                            dfs |-> Collect(fn, acc.dfs, r.df, year),
                            fetched |-> Append(acc.fetched, call),
                            net |-> acc.net + r.net])

\* The aggregators of different datasets read and write disjoint cache files
\* (CsvPath differs in the dataset), so a behaviour exercises one dataset:
\* an aggregator is called while the files of the other datasets are absent.
OnlyDataset(dataset) ==
  \A k \in CacheKeys : k[1] # dataset => cache[k] = NoFile

\* one call of a multi-year aggregator
MultiYear(fn, dataset, path, start_year, end_year, use_cache) ==
  /\ OnlyDataset(dataset)
  /\ \E replies \in Runs(dataset, start_year, end_year, use_cache, MaxNet - netCalls) :
    LET run == MultiLoop(fn, dataset, path, start_year, end_year, use_cache,
                         replies,
                         [outcome |-> "ok", cache |-> cache, dfs |-> <<>>,
                          fetched |-> <<>>, net |-> 0])
    IN /\ cache' = run.cache
       /\ netCalls' = netCalls + run.net
       /\ last' = [NoCall EXCEPT
                     !.fn = fn, !.start = start_year, !.end = end_year,
                     !.use_cache = use_cache, !.outcome = run.outcome,
                     !.df = IF run.outcome # "ok" \/ run.dfs = <<>>
                              THEN EmptyFrame ELSE concat(run.dfs),
                     !.net = run.net, !.fetched = run.fetched]

load_transfer_portal_multi ==
  \E start_year \in Years, end_year \in Years, use_cache \in BOOLEAN :
    MultiYear("load_transfer_portal_multi", "transfer_portal",
              "/player/portal", start_year, end_year, use_cache)

load_player_season_stats_multi ==
  \E start_year \in Years, end_year \in Years, use_cache \in BOOLEAN :
    MultiYear("load_player_season_stats_multi", "player_season_stats",
              "/stats/player/season", start_year, end_year, use_cache)

load_sp_plus_multi ==
  \E start_year \in Years, end_year \in Years, use_cache \in BOOLEAN :
    MultiYear("load_sp_plus_multi", "sp_plus", "/ratings/sp",
              start_year, end_year, use_cache)

NextMulti ==
  \/ load_transfer_portal_multi
  \/ load_player_season_stats_multi
  \/ load_sp_plus_multi

SpecMulti == Init /\ [][NextMulti]_vars

----------------------------------------------------------------------------
(* attach_player_ids.                                                      *)

\* str(x) of a cell value
PyStr(v) ==
  CASE v.t = "NaN" -> "nan"
    [] v.t = "None" -> "None"
    [] OTHER -> v.s

\* str.lower() on the strings that occur
Lower(x) ==
  CASE x \in {"Acme State", "ACME STATE", "acme state"} -> "acme state"
    [] x \in {"Other U", "other u"} -> "other u"
    [] x \in {"None", "none"} -> "none"
    [] OTHER -> x

\* Series.str.lower(): null cells stay null
StrLower(v) == IF v.t = "str" THEN StrV(Lower(v.s)) ELSE NaN

\* the transfer tables handed in: firstName, lastName, origin
TransferCols == <<"firstName", "lastName", "origin">>

Origins == {StrV("Acme State"), StrV("ACME STATE"), StrV("Other U"), NaN, NoneV}

TransferRows ==
  {<<StrV("Jane"), StrV("Doe"), o>> : o \in Origins}
  \cup {<<StrV("John"), StrV("Doe"), StrV("Acme State")>>}

\* the tables of n rows
RECURSIVE TransferTables(_)
TransferTables(n) ==
  IF n = 0 THEN {[cols |-> TransferCols, rows |-> <<>>]}
  ELSE {[cols |-> TransferCols, rows |-> Append(t.rows, r)] :
          t \in TransferTables(n - 1), r \in TransferRows}

\* what /player/search may answer
Candidate(id, team) == << <<"id", IntV(id)>>, <<"team", team>> >>

SearchBodies ==
  { <<>>,
    <<Candidate(101, StrV("Acme State")), Candidate(202, StrV("Other U"))>>,
    <<Candidate(202, StrV("Other U")), Candidate(101, StrV("acme state"))>>,
    <<Candidate(303, NoneV)>> }

SearchReplies ==
  [status : {200}, body : SearchBodies] \cup [status : {500}, body : {<<>>}]

\* the replies to the searches of one run of the loop over n rows, ending at
\* the first failing request
RECURSIVE SearchRuns(_)
SearchRuns(n) ==
  IF n = 0 THEN {<<>>}
  ELSE {<<r>> : r \in {x \in SearchReplies : x.status >= 400}}
       \cup {<<r>> \o rest : r \in {x \in SearchReplies : x.status < 400},
                             rest \in SearchRuns(n - 1)}

\* row["playerId"] = v on the Series of one row
SetItem(row, c, v) ==
  IF ColIndex(row.index, c) # 0
    THEN [index |-> row.index,
          vals |-> [j \in 1 .. Len(row.index) |->
                      IF row.index[j] = c THEN v ELSE row.vals[j]]]
    ELSE [index |-> Append(row.index, c), vals |-> Append(row.vals, v)]

MatchingCaseSensitive(candidates, origin) ==
  {i \in 1 .. Len(candidates.rows) : Cell(candidates, i, "team") = StrV(origin)}

\* candidates[candidates["team"].str.lower() == origin]: the positions of the
\* matching candidates
Matching(candidates, origin) ==
  {i \in 1 .. Len(candidates.rows) :
     StrLower(Cell(candidates, i, "team")) = StrV(origin)}

\* the identifier the body of the loop assigns for one row and one search
\* result
PickPlayerId(row_origin, search) ==
  IF search = <<>> THEN NoneV
  ELSE LET candidates == json_normalize(search)
           origin == Lower(PyStr(row_origin))
           match == Matching(candidates, origin)
       IN IF origin # "nan" /\ match # {}
            THEN Cell(candidates, CHOOSE i \in match : \A k \in match : i <= k, "id")
            ELSE Cell(candidates, 1, "id")

\* PickPlayerId tabulated over the origins and search results that occur
Picked == [o \in Origins, b \in SearchBodies |-> PickPlayerId(o, b)]

\* for _, row in df_transfers.iterrows()
RECURSIVE AttachLoop(_, _, _, _)
AttachLoop(df, i, replies, acc) ==
  IF i > Len(df.rows) THEN acc
  ELSE LET row == [index |-> df.cols, vals |-> df.rows[i]]
           name == Cell(df, i, "firstName").s \o " " \o Cell(df, i, "lastName").s
           search == cfbd_get("/player/search", [search |-> name], Head(replies))
           call == [search |-> name, outcome |-> search.outcome,
                    json |-> search.json]
       IN IF search.outcome # "ok"
            THEN [acc EXCEPT !.outcome = search.outcome,
                             !.searches = Append(@, call)]
            ELSE AttachLoop(df, i + 1, Tail(replies),
                   [outcome |-> "ok",
                    results |-> Append(acc.results,
                                  SetItem(row, "playerId",
                                          Picked[Cell(df, i, "origin"),
                                                 search.json])),
                    searches |-> Append(acc.searches, call)])

\* pd.DataFrame(results) for a list of Series: no columns for an empty list
FrameOfSeries(results) ==
  IF results = <<>> THEN EmptyFrame
  ELSE [cols |-> results[1].index,
        rows |-> [i \in 1 .. Len(results) |-> results[i].vals]]

attach_player_ids ==
  \E n \in 0 .. MaxRows :
    /\ netCalls + n <= MaxNet
    /\ \E df_transfers \in TransferTables(n),
          replies \in SearchRuns(n) :
         LET run == AttachLoop(df_transfers, 1, replies,
                               [outcome |-> "ok", results |-> <<>>,
                                searches |-> <<>>])
         IN /\ netCalls' = netCalls + Len(run.searches)
            /\ last' = [NoCall EXCEPT
                          !.fn = "attach_player_ids",
                          !.outcome = run.outcome,
                          !.df = IF run.outcome = "ok"
                                   THEN FrameOfSeries(run.results)
                                   ELSE EmptyFrame,
                          !.net = Len(run.searches),
                          !.input = df_transfers,
                          !.searches = run.searches]
            /\ UNCHANGED cache

NextAttach == attach_player_ids

SpecAttach == Init /\ [][NextAttach]_vars

Next == NextFetch \/ NextMulti \/ NextAttach

Spec == Init /\ [][Next]_vars

----------------------------------------------------------------------------
(* Properties.  `last` describes the most recent call, so a state predicate *)
(* on `last` and `cache` speaks of the state right after that call, and an  *)
(* action formula relates two consecutive calls.                            *)

SingleLoaders ==
  {"load_transfer_portal", "load_team_talent", "load_team_season_stats",
   "load_player_season_stats", "load_sp_plus_ratings", "load_team_records"}

Aggregators ==
  {"load_transfer_portal_multi", "load_player_season_stats_multi",
   "load_sp_plus_multi"}

DatasetOf(fn) ==
  CASE fn \in {"load_transfer_portal", "load_transfer_portal_multi"} -> "transfer_portal"
    [] fn = "load_team_talent" -> "team_talent"
    [] fn = "load_team_season_stats" -> "team_season_stats"
    [] fn \in {"load_player_season_stats", "load_player_season_stats_multi"} ->
         "player_season_stats"
    [] fn \in {"load_sp_plus_ratings", "load_sp_plus_multi"} -> "sp_plus"
    [] OTHER -> "team_records"

\* the cache file of the single-year call that `call` records
LastPath(call) == CsvPath(DatasetOf(call.fn), call.start)

\* two cells hold the same value: both null, the same number, or identical
SameValue(a, b) ==
  \/ a = b
  \/ IsNull(a) /\ IsNull(b)
  \/ IsNumber(a) /\ IsNumber(b) /\ a.n = b.n

\* the single-year calls of an aggregator run that returned rows
RECURSIVE NonEmptyCalls(_)
NonEmptyCalls(fetched) ==
  IF fetched = <<>> THEN <<>>
  ELSE (IF fetched[1].outcome = "ok" /\ ~IsEmpty(fetched[1].df)
          THEN <<fetched[1]>> ELSE <<>>)
       \o NonEmptyCalls(Tail(fetched))

\* for every row the aggregate should hold, in order: the call it was fetched
\* by and its position in that call's frame
RECURSIVE SourceRows(_)
SourceRows(calls) ==
  IF calls = <<>> THEN <<>>
  ELSE [i \in 1 .. Len(calls[1].df.rows) |-> [call |-> calls[1], row |-> i]]
       \o SourceRows(Tail(calls))

LastSources == SourceRows(NonEmptyCalls(last.fetched))

AggregateReturned == last.fn \in Aggregators /\ last.outcome = "ok"

\* a step is a second call of the same single-year loader for the same year,
\* both with caching enabled, after the first returned a table
SameFetchTwice ==
  /\ last.fn \in SingleLoaders /\ last.use_cache /\ last.outcome = "ok"
  /\ last'.fn = last.fn /\ last'.start = last.start /\ last'.use_cache

\* C1: two consecutive fetches of the same dataset and year with caching
\* enabled return identical tables, and the second makes no network request.
CacheIdempotence ==
  [][SameFetchTwice =>
       /\ last'.outcome = "ok"
       /\ last'.df = last.df
       /\ last'.net = 0]_vars

\* a fetch with caching disabled has just returned a table
BypassFetched ==
  last.fn \in SingleLoaders /\ ~last.use_cache /\ last.outcome = "ok"

\* C2: a fetch with caching disabled makes exactly one network call whatever
\* the cache holds; on success the cache entry holds the fetched table, and
\* a following fetch with caching enabled returns that table.
CacheBypass ==
  /\ [](last.fn \in SingleLoaders /\ ~last.use_cache => last.net = 1)
  /\ [](BypassFetched => cache[LastPath(last)] = to_csv(last.df))
  /\ [][BypassFetched /\ last'.fn = last.fn /\ last'.start = last.start
          /\ last'.use_cache
        => last'.outcome = "ok" /\ last'.df = last.df]_vars

\* C3: when the API client fails during a single-year fetch, the failure
\* reaches the caller and no cache entry is created or changed.
FailFastNoCacheWrite ==
  [][last'.fn \in SingleLoaders /\ last'.net = 1 /\ last'.outcome # "ok"
     => /\ last'.outcome = "HTTPError"
        /\ last'.df = EmptyFrame
        /\ cache' = cache]_vars

\* a bypassing fetch failed while its cache entry was present
FailedWithEntryPresent ==
  /\ last.fn \in SingleLoaders /\ last.outcome = "HTTPError"
  /\ cache[LastPath(last)] # NoFile

\* C4: every row of a multi-year aggregate has a "year" column whose value
\* is the year of the loop iteration that fetched the row.
YearTagging ==
  AggregateReturned =>
    \A k \in 1 .. Len(last.df.rows) :
      /\ HasColumn(last.df, "year")
      /\ SameValue(Cell(last.df, k, "year"), IntV(LastSources[k].call.year))

\* C5: an empty year is skipped without ending the loop: every year of the
\* range is fetched, and the aggregate holds exactly the rows of the years
\* that returned rows, so its row count is the sum of theirs.
EmptyYearSkip ==
  AggregateReturned =>
    /\ Len(last.fetched) = (IF last.end >= last.start
                              THEN last.end - last.start + 1 ELSE 0)
    /\ Len(last.df.rows) = Len(LastSources)
    /\ \A k \in 1 .. Len(LastSources) :
         LET src == LastSources[k]
         IN \A j \in 1 .. Len(src.call.df.cols) :
              LET c == src.call.df.cols[j]
              IN c # "year" =>
                   /\ HasColumn(last.df, c)
                   /\ SameValue(Cell(last.df, k, c), src.call.df.rows[src.row][j])

\* an aggregate was returned although an earlier year of the range was empty
\* and a later one was not
EmptyYearSkipped ==
  /\ AggregateReturned
  /\ \E i, j \in 1 .. Len(last.fetched) :
       /\ i < j
       /\ IsEmpty(last.fetched[i].df)
       /\ ~IsEmpty(last.fetched[j].df)
  /\ Len(last.df.rows) > 0

\* an aggregator ran over a non-empty range for which every answer of the
\* API, in this call or in the calls that filled the cache, was an empty array
AllYearsEmpty ==
  /\ last.fn \in Aggregators
  /\ last.start <= last.end
  /\ \A y \in last.start .. last.end :
       cache[CsvPath(DatasetOf(last.fn), y)] = to_csv(EmptyFrame)
  /\ \A i \in 1 .. Len(last.fetched) : last.fetched[i].outcome # "HTTPError"

\* C6: a range whose every year is empty yields an aggregate with no rows and
\* no columns and no error, on the first call and on later calls with
\* caching enabled.
FullEmptyRange ==
  AllYearsEmpty => last.outcome = "ok" /\ last.df = EmptyFrame

AttachReturned == last.fn = "attach_player_ids" /\ last.outcome = "ok"

\* the candidates of a search result whose team equals the origin without
\* regard to case
TeamMatches(json, origin) ==
  {k \in 1 .. Len(json) :
     LET team == Lookup(json[k], "team")
     IN team.t = "str" /\ Lower(team.s) = Lower(origin.s)}

\* the identifier the selection rule prescribes
ExpectedPlayerId(origin, json) ==
  IF json = <<>> THEN NoneV
  ELSE IF origin.t = "str" /\ TeamMatches(json, origin) # {}
    THEN Lookup(json[CHOOSE k \in TeamMatches(json, origin) :
                       \A m \in TeamMatches(json, origin) : k <= m], "id")
    ELSE Lookup(json[1], "id")

\* C7: per row, the attached identifier is null when the search found
\* nothing, the id of the first candidate whose team equals the origin
\* case-insensitively when the origin is a team name and one matches, and
\* the id of the first candidate otherwise; a run whose searches all succeed
\* raises nothing.
PlayerIdSelection ==
  /\ last.fn = "attach_player_ids"
       /\ (\A i \in 1 .. Len(last.searches) : last.searches[i].outcome = "ok")
     => last.outcome = "ok"
  /\ AttachReturned =>
       \A i \in 1 .. Len(last.input.rows) :
         /\ HasColumn(last.df, "playerId")
         /\ SameValue(Cell(last.df, i, "playerId"),
                      ExpectedPlayerId(Cell(last.input, i, "origin"),
                                       last.searches[i].json))

\* a row was given the id of a candidate that is not the first, matched by a
\* team name that differs from the origin in case
MatchedBehindFirst ==
  /\ AttachReturned
  /\ \E i \in 1 .. Len(last.input.rows) :
       /\ Cell(last.input, i, "origin") = StrV("ACME STATE")
       /\ Len(last.searches[i].json) = 2
       /\ Cell(last.df, i, "playerId") = Lookup(last.searches[i].json[2], "id")
       /\ Lookup(last.searches[i].json[2], "id") # Lookup(last.searches[i].json[1], "id")

\* C8: the returned table has the rows of the input in the same order, all
\* its columns with unchanged values and the identifier column, and one
\* search was issued per input row.
AttachOutputShape ==
  AttachReturned =>
    /\ Len(last.df.rows) = Len(last.input.rows)
    /\ last.df.cols = Append(last.input.cols, "playerId")
    /\ \A i \in 1 .. Len(last.df.rows) :
         \A j \in 1 .. Len(last.input.cols) :
           last.df.rows[i][j] = last.input.rows[i][j]
    /\ Len(last.searches) = Len(last.input.rows)
    /\ \A i \in 1 .. Len(last.searches) :
         last.searches[i].search =
           Cell(last.input, i, "firstName").s \o " " \o Cell(last.input, i, "lastName").s

\* the rows of the aggregate that come from frames which had a "year" column
\* keep the values of that column
YearColumnKept ==
  \A k \in 1 .. Len(LastSources) :
    LET src == LastSources[k]
    IN HasColumn(src.call.df, "year") =>
         SameValue(Cell(last.df, k, "year"), Cell(src.call.df, src.row, "year"))

AscendingPerYear ==
  last.fn \in Aggregators =>
    /\ \A i \in 1 .. Len(last.fetched) :
         /\ last.fetched[i].year = last.start + i - 1
         /\ last.fetched[i].year <= last.end
         /\ last.fetched[i].use_cache = last.use_cache
         /\ i < Len(last.fetched) => last.fetched[i].outcome = "ok"
         /\ last.fetched[i].net = 1 /\ last.fetched[i].outcome = "ok" =>
              cache[CsvPath(DatasetOf(last.fn), last.fetched[i].year)]
                = to_csv(last.fetched[i].df)
    /\ last.outcome = "ok" =>
         /\ Len(last.fetched) = (IF last.end >= last.start
                                   THEN last.end - last.start + 1 ELSE 0)
         /\ \A i \in 1 .. Len(last.fetched) : last.fetched[i].outcome = "ok"
         /\ Len(last.df.rows) = Len(LastSources)
         /\ \A k \in 1 .. Len(LastSources) :
              SameValue(Cell(last.df, k, "team"),
                        Cell(LastSources[k].call.df, LastSources[k].row, "team"))
    /\ last.outcome # "ok" =>
         /\ Len(last.fetched) >= 1
         /\ last.fetched[Len(last.fetched)].outcome = last.outcome
         /\ last.df = EmptyFrame

\* the second year of a range failed after the first was fetched and cached
FailedAfterFirstYear ==
  /\ last.fn \in Aggregators /\ last.outcome = "HTTPError"
  /\ Len(last.fetched) = 2
  /\ last.fetched[1].net = 1
  /\ cache[CsvPath(DatasetOf(last.fn), last.start)] = to_csv(last.fetched[1].df)

====
